---- MODULE Spec2Model ----
(***************************************************************************)
(* A model of the tau-engine optimiser (coalesce, shake) and solver        *)
(* (solve, solve_expression, search).                                      *)
(*                                                                         *)
(* Expressions, searches, values and documents are records carrying a tag. *)
(* Strings are sequences of one-character strings so that prefixes,        *)
(* suffixes and substrings can be computed.                                *)
(***************************************************************************)
EXTENDS Integers, Sequences, FiniteSets

VARIABLES
    mode,         \* which pipeline this behaviour exercises
    pc,           \* position in the pipeline
    expression,   \* the input Expression
    identifiers,  \* name -> Expression (a function over a set of names)
    document,     \* the Document handed to solve
    wraps,        \* number of constructors applied while building `expression`
    coalesced,    \* coalesce(expression, identifiers)
    shaken,       \* shake(coalesced)
    reshaken,     \* shake(coalesce(shaken, identifiers))
    solved,       \* solve_expression(expression, identifiers, document)
    answer,       \* solve on the detection holding `expression`
    solvedOpt,    \* solve_expression(shaken, identifiers, document)
    answerOpt,    \* solve on the detection holding `shaken`
    kind,         \* the Search kind handed to search
    value,        \* the string handed to search
    found,        \* search(kind, value)
    frame         \* the argument of the running invocation of shake

vars == <<mode, pc, expression, identifiers, document, wraps, coalesced, shaken,
          reshaken, solved, answer, solvedOpt, answerOpt, kind, value, found, frame>>

(***************************************************************************)
(* Sequence helpers.                                                       *)
(***************************************************************************)
Range(s) == {s[i] : i \in 1..Len(s)}

RECURSIVE Concat(_)
Concat(ss) == IF ss = <<>> THEN <<>> ELSE Head(ss) \o Concat(Tail(ss))

(***************************************************************************)
(* Strings: sequences of characters.  str::starts_with, str::ends_with,    *)
(* str::contains and the ASCII case folding used by the automaton and the  *)
(* regex builders.                                                         *)
(***************************************************************************)
Lower(c) == IF c = "A" THEN "a" ELSE IF c = "B" THEN "b" ELSE c

Fold(s) == [i \in 1..Len(s) |-> Lower(s[i])]

starts_with(v, n) == Len(n) <= Len(v) /\ SubSeq(v, 1, Len(n)) = n

ends_with(v, n) == Len(n) <= Len(v) /\ SubSeq(v, Len(v) - Len(n) + 1, Len(v)) = n

contains(v, n) ==
    \E s \in 0..(Len(v) - Len(n)) : SubSeq(v, s + 1, s + Len(n)) = n

(***************************************************************************)
(* Library contracts.                                                      *)
(*  - The automaton built from `patterns` reports, through                 *)
(*    find_overlapping_iter, every occurrence of every pattern as          *)
(*    (pattern index, start, end).                                         *)
(*  - A regex pattern is a literal here (a pattern without metacharacters):*)
(*    is_match is substring search, folded when case-insensitive.          *)
(***************************************************************************)
HitAt(patterns, ins, v, i, s) ==
    /\ s + Len(patterns[i]) <= Len(v)
    /\ IF ins
       THEN Fold(SubSeq(v, s + 1, s + Len(patterns[i]))) = Fold(patterns[i])
       ELSE SubSeq(v, s + 1, s + Len(patterns[i])) = patterns[i]

find_overlapping_iter(patterns, ins, v) ==
    {[pattern |-> i, start |-> s, end |-> s + Len(patterns[i])] :
        <<i, s>> \in {h \in (1..Len(patterns)) \X (0..Len(v)) :
                        HitAt(patterns, ins, v, h[1], h[2])}}

is_match(p, ins, v) == IF ins THEN contains(Fold(v), Fold(p)) ELSE contains(v, p)

(***************************************************************************)
(* Constructors of Expression, Search, MatchType and Match.                *)
(***************************************************************************)
Null == [t |-> "Null"]
Boolean(b) == [t |-> "Boolean", b |-> b]
Integer(i) == [t |-> "Integer", i |-> i]
Field(f) == [t |-> "Field", field |-> f]
Cast(f, to) == [t |-> "Cast", field |-> f, to |-> to]
Identifier(n) == [t |-> "Identifier", name |-> n]
BooleanExpression(l, op, r) ==
    [t |-> "BooleanExpression", left |-> l, op |-> op, right |-> r]
BooleanGroup(op, es) == [t |-> "BooleanGroup", op |-> op, expressions |-> es]
Negate(e) == [t |-> "Negate", e |-> e]
Match(m, e) == [t |-> "Match", m |-> m, e |-> e]
Nested(f, e) == [t |-> "Nested", field |-> f, e |-> e]
Search(k, f, c) == [t |-> "Search", kind |-> k, field |-> f, cast |-> c]

All == [m |-> "All"]
Of(k) == [m |-> "Of", k |-> k]

Any == [k |-> "Any"]
Exact(v) == [k |-> "Exact", v |-> v]
StartsWith(v) == [k |-> "StartsWith", v |-> v]
EndsWith(v) == [k |-> "EndsWith", v |-> v]
Contains(v) == [k |-> "Contains", v |-> v]
Regex(p, ins) == [k |-> "Regex", p |-> p, ins |-> ins]
RegexSet(ps, ins) == [k |-> "RegexSet", ps |-> ps, ins |-> ins]
\* The automaton is the list of patterns it was built from plus its
\* ascii_case_insensitive flag; contexts[i] is the MatchType of pattern i.
AhoCorasick(patterns, contexts, ins) ==
    [k |-> "AhoCorasick", patterns |-> patterns, contexts |-> contexts, ins |-> ins]

MatchType(mt, v) == [mt |-> mt, v |-> v]

Anchored == {"Exact", "StartsWith", "EndsWith", "Contains"}

(***************************************************************************)
(* solver.rs: search.  The result is a SolverResult; "NoArm" stands for a  *)
(* Search kind the match in `search` has no arm for.                       *)
(***************************************************************************)
\* Anchoring that ignores where a hit ends: an Exact or StartsWith needle is
\* accepted at offset 0, every other needle anywhere.
AcceptsByStart(ctx, hit, v) ==
    CASE ctx.mt \in {"Contains", "EndsWith"} -> TRUE
      [] ctx.mt \in {"Exact", "StartsWith"} -> hit.start = 0

Accepts(ctx, hit, v) ==
    CASE ctx.mt = "Contains" -> TRUE
      [] ctx.mt = "EndsWith" -> hit.end = Len(v)
      [] ctx.mt = "Exact" -> hit.start = 0 /\ hit.end = Len(v)
      [] ctx.mt = "StartsWith" -> hit.start = 0

search(k, v) ==
    CASE k.k = "Exact" -> IF k.v = v THEN "True" ELSE "False"
      [] k.k = "Contains" -> IF contains(v, k.v) THEN "True" ELSE "False"
      [] k.k = "EndsWith" -> IF ends_with(v, k.v) THEN "True" ELSE "False"
      [] k.k = "StartsWith" -> IF starts_with(v, k.v) THEN "True" ELSE "False"
      [] k.k = "Regex" -> IF is_match(k.p, k.ins, v) THEN "True" ELSE "False"
      [] k.k = "AhoCorasick" ->
            IF \E hit \in find_overlapping_iter(k.patterns, k.ins, v) :
                   Accepts(k.contexts[hit.pattern], hit, v)
            THEN "True" ELSE "False"
      [] OTHER -> "NoArm"

(***************************************************************************)
(* Values and documents.  A document maps every field name to a value or   *)
(* to None (find returns Option<Value>).  to_i64, to_string, as_bool,      *)
(* as_str and as_object belong to the value collaborator.                  *)
(***************************************************************************)
None == [vt |-> "None"]
VString(s) == [vt |-> "String", s |-> s]
VInt(i) == [vt |-> "Int", i |-> i]
VBool(b) == [vt |-> "Bool", b |-> b]
VNull == [vt |-> "Null"]
VArray(a) == [vt |-> "Array", a |-> a]
VObject(o) == [vt |-> "Object", o |-> o]

find(doc, f) == IF f \in DOMAIN doc THEN doc[f] ELSE None

Digits == <<"0", "1", "2", "3", "4", "5", "6", "7", "8", "9">>

DigitOf(c) == (CHOOSE d \in 1..10 : Digits[d] = c) - 1

IsDigit(c) == \E d \in 1..10 : Digits[d] = c

RECURSIVE NatToStr(_)
NatToStr(n) == IF n < 10 THEN <<Digits[n + 1]>>
               ELSE NatToStr(n \div 10) \o <<Digits[(n % 10) + 1]>>

IntToStr(i) == IF i < 0 THEN <<"-">> \o NatToStr(0 - i) ELSE NatToStr(i)

RECURSIVE DigitsToNat(_)
DigitsToNat(s) == IF s = <<>> THEN 0
                  ELSE 10 * DigitsToNat(SubSeq(s, 1, Len(s) - 1)) + DigitOf(s[Len(s)])

\* str::parse::<i64>: an optional sign followed by at least one digit.
\* The result is [ok |-> BOOLEAN, v |-> Int].
parse_i64(s) ==
    LET signed == s # <<>> /\ s[1] \in {"-", "+"}
        body == IF signed THEN Tail(s) ELSE s
    IN  IF body # <<>> /\ \A i \in 1..Len(body) : IsDigit(body[i])
        THEN [ok |-> TRUE,
              v |-> IF signed /\ s[1] = "-" THEN 0 - DigitsToNat(body)
                    ELSE DigitsToNat(body)]
        ELSE [ok |-> FALSE, v |-> 0]

to_i64(v) == IF v.vt = "Int" THEN [ok |-> TRUE, v |-> v.i] ELSE [ok |-> FALSE, v |-> 0]

to_string(v) ==
    CASE v.vt = "String" -> [ok |-> TRUE, v |-> v.s]
      [] v.vt = "Int" -> [ok |-> TRUE, v |-> IntToStr(v.i)]
      [] v.vt = "Bool" ->
            [ok |-> TRUE,
             v |-> IF v.b THEN <<"t", "r", "u", "e">> ELSE <<"f", "a", "l", "s", "e">>]
      [] OTHER -> [ok |-> FALSE, v |-> <<>>]

as_bool(v) == IF v.vt = "Bool" THEN [ok |-> TRUE, v |-> v.b] ELSE [ok |-> FALSE, v |-> FALSE]

(***************************************************************************)
(* solver.rs: solve_expression and solve.                                  *)
(* A SolverResult is "True", "False" or "Missing".  Two more outcomes      *)
(* record where the function does not return one: "Panic" for an           *)
(* unreachable!() arm and "NoArm" for a variant the match has no arm for.  *)
(* Both abort the evaluation, so they propagate through every caller that  *)
(* has evaluated them.                                                     *)
(***************************************************************************)
Abnormal(r) == r \in {"Panic", "NoArm"}

Comparisons == {"Equal", "GreaterThan", "GreaterThanOrEqual", "LessThan", "LessThanOrEqual"}

\* One side of an integer comparison: [st |-> "ok", v |-> i], or the
\* SolverResult the function returns early with.
resolve_i64(side, doc) ==
    CASE side.t = "Field" ->
            IF find(doc, side.field) = None THEN [st |-> "Missing", v |-> 0]
            ELSE IF to_i64(find(doc, side.field)).ok
                 THEN [st |-> "ok", v |-> to_i64(find(doc, side.field)).v]
                 ELSE [st |-> "False", v |-> 0]
      [] side.t = "Cast" /\ side.to = "Int" ->
            IF find(doc, side.field) = None THEN [st |-> "Missing", v |-> 0]
            ELSE IF to_string(find(doc, side.field)).ok
                    /\ parse_i64(to_string(find(doc, side.field)).v).ok
                 THEN [st |-> "ok", v |-> parse_i64(to_string(find(doc, side.field)).v).v]
                 ELSE [st |-> "False", v |-> 0]
      [] side.t = "Integer" -> [st |-> "ok", v |-> side.i]
      [] OTHER -> [st |-> "False", v |-> 0]

\* A comparison that resolves the right side before the left one.
solve_comparison_right_first(left, op, right, doc) ==
    LET x == resolve_i64(left, doc)
        y == resolve_i64(right, doc)
        res == CASE op = "Equal" -> x.v = y.v
                 [] op = "GreaterThan" -> x.v > y.v
                 [] op = "GreaterThanOrEqual" -> x.v >= y.v
                 [] op = "LessThan" -> x.v < y.v
                 [] op = "LessThanOrEqual" -> x.v <= y.v
    IN  IF y.st # "ok" THEN y.st
        ELSE IF x.st # "ok" THEN x.st
        ELSE IF res THEN "True" ELSE "False"

solve_comparison(left, op, right, doc) ==
    LET x == resolve_i64(left, doc)
        y == resolve_i64(right, doc)
        res == CASE op = "Equal" -> x.v = y.v
                 [] op = "GreaterThan" -> x.v > y.v
                 [] op = "GreaterThanOrEqual" -> x.v >= y.v
                 [] op = "LessThan" -> x.v < y.v
                 [] op = "LessThanOrEqual" -> x.v <= y.v
    IN  IF x.st # "ok" THEN x.st
        ELSE IF y.st # "ok" THEN y.st
        ELSE IF res THEN "True" ELSE "False"

\* Cast(l, Str) == Cast(r, Str)
solve_str_equal(l, r, doc) ==
    IF find(doc, l) = None THEN "Missing"
    ELSE IF ~to_string(find(doc, l)).ok THEN "False"
    ELSE IF find(doc, r) = None THEN "Missing"
    ELSE IF ~to_string(find(doc, r)).ok THEN "False"
    ELSE IF to_string(find(doc, l)).v = to_string(find(doc, r)).v THEN "True"
    ELSE "False"

\* Field(l) == Boolean(b)
solve_bool_equal(l, b, doc) ==
    IF find(doc, l) = None THEN "Missing"
    ELSE IF ~as_bool(find(doc, l)).ok THEN "False"
    ELSE IF as_bool(find(doc, l)).v = b THEN "True"
    ELSE "False"

\* BoolSym::And on the results of the two sides; the right side is only
\* evaluated when the left one is True.
solve_and(x, y) ==
    CASE Abnormal(x) -> x
      [] x = "False" -> "False"
      [] x = "Missing" -> "Missing"
      [] Abnormal(y) -> y
      [] y = "Missing" -> "Missing"
      [] y = "True" -> "True"
      [] OTHER -> "False"

\* BoolSym::Or on the results of the two sides; the right side is only
\* evaluated when the left one is not True.
solve_or(x, y) ==
    CASE Abnormal(x) -> x
      [] x = "True" -> "True"
      [] Abnormal(y) -> y
      [] y = "True" -> "True"
      [] x = "Missing" /\ y = "Missing" -> "Missing"
      [] OTHER -> "False"

\* Kleene negation, under which Missing stays Missing.
solve_negate_kleene(r) ==
    CASE r = "True" -> "False"
      [] r = "False" -> "True"
      [] OTHER -> r

solve_negate(r) ==
    CASE r = "True" -> "False"
      [] r = "False" -> "True"
      [] r = "Missing" -> "False"
      [] OTHER -> r

\* A loop that remembers a Missing element when no element is True.
FirstTrueOrMissing(results) ==
    LET stop == {i \in 1..Len(results) : results[i] = "True" \/ Abnormal(results[i])}
    IN  IF stop = {}
        THEN IF \E i \in 1..Len(results) : results[i] = "Missing" THEN "Missing" ELSE "False"
        ELSE results[CHOOSE i \in stop : \A j \in stop : i <= j]

\* A loop over `results` that returns at the first True (or aborts at the
\* first abnormal outcome) and yields False when it runs to the end.
FirstTrue(results) ==
    LET stop == {i \in 1..Len(results) : results[i] = "True" \/ Abnormal(results[i])}
    IN  IF stop = {} THEN "False"
        ELSE results[CHOOSE i \in stop : \A j \in stop : i <= j]

\* A Search arm that takes a value of the wrong type for a mismatch.
solve_search_mismatch_false(k, f, doc) ==
    LET v == find(doc, f)
    IN  CASE v = None -> "Missing"
          [] v.vt = "String" -> search(k, v.s)
          [] v.vt = "Array" ->
                IF \E i \in 1..Len(v.a) : v.a[i].vt = "String" /\ search(k, v.a[i].s) = "True"
                THEN "True" ELSE "False"
          [] OTHER -> "False"

solve_search(k, f, doc) ==
    LET v == find(doc, f)
    IN  CASE v = None -> "Missing"
          [] v.vt = "String" -> search(k, v.s)
          [] v.vt = "Array" ->
                LET strs == SelectSeq(v.a, LAMBDA x : x.vt = "String")
                IN  FirstTrue([i \in 1..Len(strs) |-> search(k, strs[i].s)])
          [] OTHER -> "Missing"

RECURSIVE solve_expression(_, _, _)
solve_expression(e, ids, doc) ==
    CASE e.t = "BooleanExpression" ->
            IF /\ e.op = "Equal"
               /\ e.left.t = "Cast" /\ e.left.to = "Str"
               /\ e.right.t = "Cast" /\ e.right.to = "Str"
            THEN solve_str_equal(e.left.field, e.right.field, doc)
            ELSE IF e.op = "Equal" /\ e.left.t = "Field" /\ e.right.t = "Boolean"
            THEN solve_bool_equal(e.left.field, e.right.b, doc)
            ELSE IF e.op \in Comparisons
            THEN solve_comparison(e.left, e.op, e.right, doc)
            ELSE IF e.op = "And"
            THEN LET x == solve_expression(e.left, ids, doc)
                 IN  IF x = "True"
                     THEN solve_and(x, solve_expression(e.right, ids, doc))
                     ELSE solve_and(x, x)
            ELSE LET x == solve_expression(e.left, ids, doc)
                 IN  IF x \in {"False", "Missing"}
                     THEN solve_or(x, solve_expression(e.right, ids, doc))
                     ELSE solve_or(x, x)
      [] e.t = "Identifier" ->
            IF e.name \in DOMAIN ids
            THEN solve_expression(ids[e.name], ids, doc)
            ELSE "Panic"
      [] e.t = "Negate" -> solve_negate(solve_expression(e.e, ids, doc))
      [] e.t = "Nested" ->
            LET v == find(doc, e.field)
            IN  CASE v = None -> "Missing"
                  [] v.vt = "Object" -> solve_expression(e.e, ids, v.o)
                  [] v.vt = "Array" ->
                        LET objs == SelectSeq(v.a, LAMBDA x : x.vt = "Object")
                        IN  FirstTrue([i \in 1..Len(objs) |->
                                          solve_expression(e.e, ids, objs[i].o)])
                  [] OTHER -> "False"
      [] e.t = "Search" -> solve_search(e.kind, e.field, doc)
      [] e.t \in {"Boolean", "Cast", "Field", "Integer"} -> "Panic"
      [] OTHER -> "NoArm"

\* The public wrapper: "true" / "false", or the abnormal outcome.
\* A public answer that takes only a conclusive False for false.
solve_unless_false(e, ids, doc) ==
    LET r == solve_expression(e, ids, doc)
    IN  CASE r \in {"True", "Missing"} -> "true"
          [] r = "False" -> "false"
          [] OTHER -> r

solve(e, ids, doc) ==
    LET r == solve_expression(e, ids, doc)
    IN  CASE r = "True" -> "true"
          [] r \in {"False", "Missing"} -> "false"
          [] OTHER -> r

(***************************************************************************)
(* optimiser.rs: coalesce.                                                 *)
(* An identifier missing from the map makes `expect` panic: the result is  *)
(* then the marker PanicExpr, which absorbs every enclosing constructor.   *)
(***************************************************************************)
PanicExpr == [t |-> "Panic"]

RECURSIVE coalesce(_, _)
coalesce(e, ids) ==
    CASE e.t = "BooleanGroup" ->
            LET scratch == [i \in 1..Len(e.expressions) |-> coalesce(e.expressions[i], ids)]
            IN  IF \E i \in 1..Len(scratch) : scratch[i] = PanicExpr THEN PanicExpr
                ELSE BooleanGroup(e.op, scratch)
      [] e.t = "BooleanExpression" ->
            LET left == coalesce(e.left, ids)
                right == coalesce(e.right, ids)
            IN  IF left = PanicExpr \/ right = PanicExpr THEN PanicExpr
                ELSE BooleanExpression(left, e.op, right)
      [] e.t = "Identifier" ->
            IF e.name \in DOMAIN ids THEN ids[e.name] ELSE PanicExpr
      [] e.t = "Match" ->
            IF coalesce(e.e, ids) = PanicExpr THEN PanicExpr
            ELSE Match(e.m, coalesce(e.e, ids))
      [] e.t = "Negate" ->
            IF coalesce(e.e, ids) = PanicExpr THEN PanicExpr
            ELSE Negate(coalesce(e.e, ids))
      [] e.t = "Nested" ->
            IF coalesce(e.e, ids) = PanicExpr THEN PanicExpr
            ELSE Nested(e.field, coalesce(e.e, ids))
      [] OTHER -> e

(***************************************************************************)
(* Orders used by shake.                                                   *)
(***************************************************************************)
\* Byte order of the characters (ASCII).
Alphabet == <<"+", "-", "0", "1", "2", "3", "4", "5", "6", "7", "8", "9",
              "A", "B", "a", "b", "c", "e", "f", "l", "r", "s", "t", "u">>

CharCode(c) == CHOOSE i \in 1..Len(Alphabet) : Alphabet[i] = c

\* str::cmp: lexicographic, a proper prefix first.
RECURSIVE StrLess(_, _)
StrLess(a, b) ==
    IF b = <<>> THEN FALSE
    ELSE IF a = <<>> THEN TRUE
    ELSE IF a[1] # b[1] THEN CharCode(a[1]) < CharCode(b[1])
    ELSE StrLess(Tail(a), Tail(b))

\* Vec<String>::cmp
RECURSIVE VecLess(_, _)
VecLess(a, b) ==
    IF b = <<>> THEN FALSE
    ELSE IF a = <<>> THEN TRUE
    ELSE IF a[1] # b[1] THEN StrLess(a[1], b[1])
    ELSE VecLess(Tail(a), Tail(b))

\* slice::sort_by: a stable sort under the strict weak order Less.
StableSortBy(s, Less(_, _)) ==
    LET n == Len(s)
        rank(j) == Cardinality({k \in 1..n :
                        Less(s[k], s[j]) \/ (~Less(s[j], s[k]) /\ k < j)})
    IN  [i \in 1..n |-> s[CHOOSE j \in 1..n : rank(j) = i - 1]]

\* A set listed by ascending rank (ranks are distinct on the set).
ByRank(S, rank(_)) ==
    [i \in 1..Cardinality(S) |->
        CHOOSE x \in S : Cardinality({y \in S : rank(y) < rank(x)}) = i - 1]

(***************************************************************************)
(* Iteration order of the three HashMaps of shake.  The order in which a   *)
(* HashMap yields its keys is not fixed by the program: `ord` is the       *)
(* oracle that decides it.  It ranks the fields by `ord.fields` and, among *)
(* keys of one field, puts the cast / insensitive keys first or last.      *)
(***************************************************************************)
FieldNames == <<"f", "g">>

FieldPos(f, ord) == CHOOSE i \in 1..Len(ord.fields) : ord.fields[i] = f

Bit(b, flip) == IF b # flip THEN 1 ELSE 0

KeyRank(K, ord) ==
    4 * FieldPos(K.field, ord) + 2 * Bit(K.cast, ord.flip) + Bit(K.ins, ord.flip)

Orders == {[fields |-> <<"f", "g">>, flip |-> FALSE],
           [fields |-> <<"f", "g">>, flip |-> TRUE],
           [fields |-> <<"g", "f">>, flip |-> FALSE],
           [fields |-> <<"g", "f">>, flip |-> TRUE]}

(***************************************************************************)
(* optimiser.rs: shake.                                                    *)
(***************************************************************************)
IsKind(x, ks) == x.t = "Search" /\ x.kind.k \in ks

\* needles: key and contributed (MatchType, value) pairs of a child
NeedleKey(x) ==
    [field |-> x.field, cast |-> x.cast,
     ins |-> IF x.kind.k = "AhoCorasick" THEN x.kind.ins ELSE FALSE]

\* An automaton child that hands on its first context only.
NeedleEntriesFirst(x) ==
    IF x.kind.k = "AhoCorasick"
    THEN <<MatchType(x.kind.contexts[1].mt, x.kind.contexts[1].v)>>
    ELSE <<MatchType(x.kind.k, x.kind.v)>>

NeedleEntries(x) ==
    IF x.kind.k = "AhoCorasick"
    THEN [i \in 1..Len(x.kind.contexts) |->
             MatchType(x.kind.contexts[i].mt, x.kind.contexts[i].v)]
    ELSE <<MatchType(x.kind.k, x.kind.v)>>

\* patterns: key and contributed patterns of a child
\* A key that ignores the insensitive flag of a pattern.
PatternKeyAnyCase(x) == [field |-> x.field, cast |-> x.cast, ins |-> FALSE]

PatternKey(x) == [field |-> x.field, cast |-> x.cast, ins |-> x.kind.ins]

PatternEntries(x) == IF x.kind.k = "Regex" THEN <<x.kind.p>> ELSE x.kind.ps

NeedleKinds == Anchored \cup {"AhoCorasick"}

PatternKinds == {"Regex", "RegexSet"}

\* An emission that builds an automaton for a single needle too.
emit_needles_fused(K, searches) ==
    Search(AhoCorasick([i \in 1..Len(searches) |-> searches[i].v], searches, K.ins),
           K.field, K.cast)

\* for ((field, cast, insensitive), searches) in needles
emit_needles(K, searches) ==
    IF ~K.ins /\ Len(searches) = 1
    THEN Search([k |-> searches[1].mt, v |-> searches[1].v], K.field, K.cast)
    ELSE Search(AhoCorasick([i \in 1..Len(searches) |-> searches[i].v], searches, K.ins),
                K.field, K.cast)

\* for ((field, cast, insensitive), patterns) in patterns
emit_patterns(K, ps) ==
    IF Len(ps) = 1
    THEN Search(Regex(ps[1], K.ins), K.field, K.cast)
    ELSE Search(RegexSet(ps, K.ins), K.field, K.cast)

\* The reverse of LenLess: longer needles first.
LenGreater(x, y) == Len(x.kind.v) > Len(y.kind.v)

LenLess(x, y) == Len(x.kind.v) < Len(y.kind.v)

PairLess(a1, a2, b1, b2) == a1 < b1 \/ (a1 = b1 /\ a2 < b2)

BoolNum(b) == IF b THEN 1 ELSE 0

\* (b.len(), case1).cmp(&(a.len(), case0))
AhoLess(x, y) ==
    PairLess(Len(y.kind.contexts), BoolNum(y.kind.ins),
             Len(x.kind.contexts), BoolNum(x.kind.ins))

RegexLess(x, y) ==
    \/ StrLess(x.kind.p, y.kind.p)
    \/ x.kind.p = y.kind.p /\ BoolNum(x.kind.ins) < BoolNum(y.kind.ins)

RegexSetLess(x, y) ==
    \/ VecLess(x.kind.ps, y.kind.ps)
    \/ x.kind.ps = y.kind.ps /\ BoolNum(x.kind.ins) < BoolNum(y.kind.ins)

\* shake and the Or arm call each other: a merged Nested child is shaken.
RECURSIVE shake(_, _), shake_or(_, _)

\* A merge of Nested children that keeps the first one only.
emit_nested_first(field, expressions, ord) ==
    Nested(field, shake(expressions[1], ord))

\* for (field, expressions) in nested
emit_nested(field, expressions, ord) ==
    Nested(field,
           IF Len(expressions) = 1 THEN shake(expressions[1], ord)
           ELSE shake(BooleanGroup("Or", expressions), ord))

\* The BoolSym::Or arm of the BooleanGroup rule, from the shaken children
\* `sh` to the `scratch` vector it returns.
shake_or(sh, ord) ==
    LET n == Len(sh)
        needleKeys == {NeedleKey(sh[i]) : i \in {j \in 1..n : IsKind(sh[j], NeedleKinds)}}
        needles(K) ==
            Concat([i \in 1..n |->
                       IF IsKind(sh[i], NeedleKinds) /\ NeedleKey(sh[i]) = K
                       THEN NeedleEntries(sh[i]) ELSE <<>>])
        patternKeys == {PatternKey(sh[i]) : i \in {j \in 1..n : IsKind(sh[j], PatternKinds)}}
        patterns(K) ==
            Concat([i \in 1..n |->
                       IF IsKind(sh[i], PatternKinds) /\ PatternKey(sh[i]) = K
                       THEN PatternEntries(sh[i]) ELSE <<>>])
        nestedKeys == {sh[i].field : i \in {j \in 1..n : sh[j].t = "Nested"}}
        nested(f) ==
            Concat([i \in 1..n |->
                       IF sh[i].t = "Nested" /\ sh[i].field = f THEN <<sh[i].e>> ELSE <<>>])
        rankKey(K) == KeyRank(K, ord)
        rankField(f) == FieldPos(f, ord)
        needleOrder == ByRank(needleKeys, rankKey)
        patternOrder == ByRank(patternKeys, rankKey)
        nestedOrder == ByRank(nestedKeys, rankField)
        fused == [i \in 1..Len(needleOrder) |->
                     emit_needles(needleOrder[i], needles(needleOrder[i]))]
        compiled == [i \in 1..Len(patternOrder) |->
                        emit_patterns(patternOrder[i], patterns(patternOrder[i]))]
        merged == [i \in 1..Len(nestedOrder) |->
                      emit_nested(nestedOrder[i], nested(nestedOrder[i]), ord)]
        any == SelectSeq(sh, LAMBDA x : IsKind(x, {"Any"}))
        exact == SelectSeq(fused, LAMBDA x : x.kind.k = "Exact")
        starts_with_ == SelectSeq(fused, LAMBDA x : x.kind.k = "StartsWith")
        ends_with_ == SelectSeq(fused, LAMBDA x : x.kind.k = "EndsWith")
        contains_ == SelectSeq(fused, LAMBDA x : x.kind.k = "Contains")
        aho == SelectSeq(fused, LAMBDA x : x.kind.k = "AhoCorasick")
        regex == SelectSeq(compiled, LAMBDA x : x.kind.k = "Regex")
        regex_set == SelectSeq(compiled, LAMBDA x : x.kind.k = "RegexSet")
        rest == SelectSeq(sh, LAMBDA x : x.t \notin {"Nested", "Search"}) \o merged
    IN  any
        \o StableSortBy(exact, LenLess)
        \o StableSortBy(starts_with_, LenLess)
        \o StableSortBy(ends_with_, LenLess)
        \o StableSortBy(contains_, LenLess)
        \o StableSortBy(aho, AhoLess)
        \o StableSortBy(regex, RegexLess)
        \o StableSortBy(regex_set, RegexSetLess)
        \o rest

shake_group(e, ord) ==
    LET length == Len(e.expressions)
        sh == [i \in 1..length |-> shake(e.expressions[i], ord)]
        expressions == IF e.op = "And" THEN sh ELSE shake_or(sh, ord)
    IN  IF Len(expressions) # length THEN shake(BooleanGroup(e.op, expressions), ord)
        ELSE IF Len(expressions) = 1 THEN expressions[1]
        ELSE BooleanGroup(e.op, expressions)

IsGroup(x, op) == x.t = "BooleanGroup" /\ x.op = op

IsBinary(x, op) == x.t = "BooleanExpression" /\ x.op = op

\* A binary rule without the De Morgan arm.
shake_binary_without_de_morgan(e, ord) ==
    LET left == shake(e.left, ord)
        right == shake(e.right, ord)
        op == e.op
    IN  IF op \in {"And", "Or"}
           /\ (IsGroup(left, op) \/ IsBinary(left, op)
               \/ IsGroup(right, op) \/ IsBinary(right, op))
        THEN shake(BooleanGroup(op,
                 (CASE IsGroup(left, op) -> left.expressions
                    [] IsBinary(left, op) /\ ~IsGroup(right, op) -> <<left.left, left.right>>
                    [] OTHER -> <<left>>)
                 \o (CASE IsGroup(right, op) -> right.expressions
                       [] IsBinary(right, op) /\ ~IsGroup(left, op) /\ ~IsBinary(left, op) ->
                             <<right.left, right.right>>
                       [] OTHER -> <<right>>)), ord)
        ELSE BooleanExpression(left, op, right)

shake_binary(e, ord) ==
    LET left == shake(e.left, ord)
        right == shake(e.right, ord)
        op == e.op
    IN  CASE op \in {"And", "Or"} /\ IsGroup(left, op) /\ IsGroup(right, op) ->
                shake(BooleanGroup(op, left.expressions \o right.expressions), ord)
          [] op \in {"And", "Or"} /\ IsGroup(left, op) ->
                shake(BooleanGroup(op, Append(left.expressions, right)), ord)
          [] op \in {"And", "Or"} /\ IsGroup(right, op) ->
                shake(BooleanGroup(op, <<left>> \o right.expressions), ord)
          [] op \in {"And", "Or"} /\ IsBinary(left, op) ->
                shake(BooleanGroup(op, <<left.left, left.right, right>>), ord)
          [] op \in {"And", "Or"} /\ IsBinary(right, op) ->
                shake(BooleanGroup(op, <<left, right.left, right.right>>), ord)
          [] op = "And" /\ left.t = "Negate" /\ right.t = "Negate" ->
                shake(Negate(shake(BooleanExpression(left.e, "Or", right.e), ord)), ord)
          [] OTHER -> BooleanExpression(left, op, right)

\* A quantifier rule that rewrites every quantifier over an Or-group.
shake_match_any_quantifier(e) ==
    IF IsGroup(e.e, "Or") THEN BooleanGroup("And", e.e.expressions) ELSE e

shake_match(e) ==
    IF e.m.m = "All" /\ IsGroup(e.e, "Or")
    THEN BooleanGroup("And", e.e.expressions)
    ELSE e

\* A Negate rule that keeps a double negation.
shake_negate_kept(e, ord) ==
    IF IsGroup(e.e, "Or") THEN shake(Match(Of(0), e.e), ord)
    ELSE Negate(shake(e.e, ord))

shake_negate(e, ord) ==
    CASE IsGroup(e.e, "Or") -> shake(Match(Of(0), e.e), ord)
      [] e.e.t = "Negate" -> shake(e.e.e, ord)
      [] OTHER -> Negate(shake(e.e, ord))

shake(e, ord) ==
    CASE e.t = "BooleanGroup" -> shake_group(e, ord)
      [] e.t = "BooleanExpression" -> shake_binary(e, ord)
      [] e.t = "Match" -> shake_match(e)
      [] e.t = "Negate" -> shake_negate(e, ord)
      [] e.t = "Nested" -> Nested(e.field, shake(e.e, ord))
      [] OTHER -> e

(***************************************************************************)
(* The re-invocations of shake.  Every rule that calls shake on a rebuilt  *)
(* expression does so as its last step: `reshake` is the argument of that  *)
(* call, <<>> when the rule returns without one.                           *)
(***************************************************************************)
\* A group rule that re-shakes whenever the children changed at all.
regrouped_until_unchanged(e, sh, ord) ==
    LET expressions == IF e.op = "And" THEN sh ELSE shake_or(sh, ord)
    IN  IF expressions # e.expressions THEN <<BooleanGroup(e.op, expressions)>> ELSE <<>>

\* if expressions.len() != length { shake(BooleanGroup(symbol, expressions)) }
\* `sh` are the shaken children of the group e.
regrouped(e, sh, ord) ==
    LET expressions == IF e.op = "And" THEN sh ELSE shake_or(sh, ord)
    IN  IF Len(expressions) # Len(e.expressions)
        THEN <<BooleanGroup(e.op, expressions)>> ELSE <<>>

reshake_group(e, ord) ==
    regrouped(e, [i \in 1..Len(e.expressions) |-> shake(e.expressions[i], ord)], ord)

\* `left` and `right` are the shaken sides of the binary node.
rebuilt(left, op, right, ord) ==
    CASE op \in {"And", "Or"} /\ IsGroup(left, op) /\ IsGroup(right, op) ->
            <<BooleanGroup(op, left.expressions \o right.expressions)>>
      [] op \in {"And", "Or"} /\ IsGroup(left, op) ->
            <<BooleanGroup(op, Append(left.expressions, right))>>
      [] op \in {"And", "Or"} /\ IsGroup(right, op) ->
            <<BooleanGroup(op, <<left>> \o right.expressions)>>
      [] op \in {"And", "Or"} /\ IsBinary(left, op) ->
            <<BooleanGroup(op, <<left.left, left.right, right>>)>>
      [] op \in {"And", "Or"} /\ IsBinary(right, op) ->
            <<BooleanGroup(op, <<left, right.left, right.right>>)>>
      [] op = "And" /\ left.t = "Negate" /\ right.t = "Negate" ->
            <<Negate(shake(BooleanExpression(left.e, "Or", right.e), ord))>>
      [] OTHER -> <<>>

reshake_binary(e, ord) == rebuilt(shake(e.left, ord), e.op, shake(e.right, ord), ord)

reshake_negate(e, ord) ==
    CASE IsGroup(e.e, "Or") -> <<Match(Of(0), e.e)>>
      [] e.e.t = "Negate" -> <<e.e.e>>
      [] OTHER -> <<>>

reshake(e, ord) ==
    CASE e.t = "BooleanGroup" -> reshake_group(e, ord)
      [] e.t = "BooleanExpression" -> reshake_binary(e, ord)
      [] e.t = "Negate" -> reshake_negate(e, ord)
      [] OTHER -> <<>>

(***************************************************************************)
(* Bounds of the model.                                                    *)
(***************************************************************************)
MaxWraps == 2      \* constructors applied on top of the initial expression
MaxChildren == 3   \* children of an Or-group built child by child
MaxContexts == 2   \* needles of an automaton handed to search
MaxValueLen == 3   \* length of the string handed to search
MaxFused == 3      \* children of an Or-group whose children share fields

(***************************************************************************)
(* The expressions, identifier maps and documents the behaviours draw      *)
(* from.  An expression is an initial expression with up to MaxWraps       *)
(* constructors applied on top of it, or an Or-group of up to MaxChildren  *)
(* children.                                                               *)
(***************************************************************************)
sa == <<"a">>
sb == <<"b">>
sab == <<"a", "b">>

P == Search(Exact(sa), "f", FALSE)
Q == Search(Exact(sa), "g", FALSE)
Fusable == BooleanGroup("Or", <<P, Search(Exact(sab), "f", FALSE)>>)
Plain == BooleanGroup("Or", <<Null, Q>>)

Atoms(m) ==
    CASE m = "tree" -> {Null, P, Negate(P), Fusable, Plain, Identifier("A")}
      [] m = "solve" -> {P, Identifier("A")}
      [] m = "coalesce" -> {P, Identifier("A"), Identifier("B")}
      [] m = "group" -> {}

Operands == {Q, Negate(Q)}

Binary(sides) ==
    {[c |-> side, op |-> op, other |-> o] :
        side \in sides, op \in {"And", "Or"}, o \in Operands}

Ctors(m) ==
    CASE m = "tree" ->
            {[c |-> "Negate"], [c |-> "Nested", field |-> "f"],
             [c |-> "Match", m |-> All], [c |-> "Match", m |-> Of(0)],
             [c |-> "Match", m |-> Of(1)],
             [c |-> "Singleton", op |-> "Or"], [c |-> "Singleton", op |-> "And"],
             [c |-> "GroupWith", op |-> "Or", other |-> Q],
             [c |-> "GroupWith", op |-> "And", other |-> Q]}
            \cup Binary({"BinL", "BinR"})
      [] m = "solve" ->
            {[c |-> "Negate"], [c |-> "Nested", field |-> "f"]} \cup Binary({"BinL", "BinR"})
      [] m = "coalesce" ->
            {[c |-> "Negate"], [c |-> "Nested", field |-> "f"], [c |-> "Match", m |-> All],
             [c |-> "BinL", op |-> "And", other |-> Identifier("A")],
             [c |-> "GroupWith", op |-> "Or", other |-> Q]}
      [] m = "group" -> {}

\* What the parser builds: a quantifier ranges over a group or an identifier.
Applicable(c, e) ==
    c.c = "Match" => e.t \in {"BooleanGroup", "Identifier"}

Apply(c, e) ==
    CASE c.c = "Negate" -> Negate(e)
      [] c.c = "Nested" -> Nested(c.field, e)
      [] c.c = "Match" -> Match(c.m, e)
      [] c.c = "Singleton" -> BooleanGroup(c.op, <<e>>)
      [] c.c = "BinL" -> BooleanExpression(e, c.op, c.other)
      [] c.c = "BinR" -> BooleanExpression(c.other, c.op, e)
      [] c.c = "GroupWith" -> BooleanGroup(c.op, <<e, c.other>>)

GroupAtoms ==
    {Search(Any, "f", FALSE),
     Search(Exact(sa), "f", FALSE),
     Search(Exact(sab), "f", TRUE),
     Search(Exact(sb), "g", FALSE),
     Search(StartsWith(sa), "g", FALSE),
     Search(EndsWith(sb), "g", TRUE),
     Search(Contains(sab), "f", FALSE),
     Search(AhoCorasick(<<sa>>, <<MatchType("EndsWith", sa)>>, TRUE), "f", FALSE),
     Search(Regex(sa, FALSE), "f", FALSE),
     Search(Regex(sb, TRUE), "f", FALSE),
     Search(RegexSet(<<sb, sa>>, FALSE), "f", FALSE),
     Nested("g", Search(Exact(sa), "f", FALSE)),
     Null}

\* Identifier maps.  In the optimiser pipeline "A" names a fusable Or-group.
IdentifiersOf(m) ==
    CASE m = "solve" -> {[n \in {"A"} |-> Search(Contains(sb), "f", FALSE)]}
      [] m = "coalesce" ->
            LET defs == {P, Fusable, Identifier("B"), Negate(Identifier("A"))}
            IN  [{"A", "B"} -> defs] \cup [{"A"} -> defs]
      [] OTHER -> {[n \in {"A"} |-> Fusable]}

Flat == {sa, sb}

Documents ==
    {[f |-> VString(x), g |-> VString(y)] : x \in Flat, y \in Flat}
    \cup {[f |-> VString(x)] : x \in Flat}
    \cup {[g |-> VString(y)] : y \in Flat}
    \cup {[h |-> VNull],
          [f |-> VObject([f |-> VString(sa)])],
          [f |-> VArray(<<VObject([g |-> VString(sa)]), VObject([f |-> VString(sa)])>>)],
          [f |-> VArray(<<VInt(1), VString(sa)>>), g |-> VInt(1)]}

NoValue == [t |-> "NoValue"]

Idle ==
    /\ coalesced = NoValue /\ shaken = NoValue /\ reshaken = NoValue
    /\ solved = "" /\ answer = "" /\ solvedOpt = "" /\ answerOpt = ""
    /\ kind = NoValue /\ value = <<>> /\ found = ""
    /\ frame = NoValue

(***************************************************************************)
(* Building the rule's expression.                                         *)
(***************************************************************************)
\* The rule's author applies one more constructor.
Wrap ==
    /\ pc = "build" /\ wraps < MaxWraps
    /\ \E c \in Ctors(mode) :
          /\ Applicable(c, expression)
          /\ expression' = Apply(c, expression)
    /\ wraps' = wraps + 1
    /\ UNCHANGED <<frame, mode, pc, identifiers, document, coalesced, shaken, reshaken,
                   solved, answer, solvedOpt, answerOpt, kind, value, found>>

\* The rule's author adds one more alternative to the Or-group.
AppendChild ==
    /\ pc = "build" /\ mode = "group"
    /\ Len(expression.expressions) < MaxChildren
    /\ \E x \in GroupAtoms :
          expression' = BooleanGroup("Or", Append(expression.expressions, x))
    /\ UNCHANGED <<frame, mode, pc, identifiers, document, wraps, coalesced, shaken,
                   reshaken, solved, answer, solvedOpt, answerOpt, kind, value, found>>

(***************************************************************************)
(* The optimiser: coalesce, then shake; and the optimiser applied to its   *)
(* own output.                                                             *)
(***************************************************************************)
Coalesce ==
    /\ pc = "build"
    /\ coalesced' = coalesce(expression, identifiers)
    /\ pc' = "coalesced"
    /\ UNCHANGED <<frame, mode, expression, identifiers, document, wraps, shaken,
                   reshaken, solved, answer, solvedOpt, answerOpt, kind, value, found>>

\* shake meets some iteration order of its HashMaps.
Shake ==
    /\ pc = "coalesced" /\ coalesced # PanicExpr
    /\ \E ord \in Orders : shaken' = shake(coalesced, ord)
    /\ pc' = "shaken"
    /\ UNCHANGED <<frame, mode, expression, identifiers, document, wraps, coalesced,
                   reshaken, solved, answer, solvedOpt, answerOpt, kind, value, found>>

\* optimise applied to its own output, meeting the iteration order that
\* produced `shaken`.
Reoptimise ==
    /\ pc = "shaken" /\ mode \in {"tree", "group"}
    /\ \E ord \in Orders :
          /\ shake(coalesced, ord) = shaken
          /\ reshaken' = shake(coalesce(shaken, identifiers), ord)
    /\ pc' = "reshaken"
    /\ UNCHANGED <<frame, mode, expression, identifiers, document, wraps, coalesced,
                   shaken, solved, answer, solvedOpt, answerOpt, kind, value, found>>

InitShake ==
    /\ mode \in {"tree", "group"}
    /\ pc = "build"
    /\ expression \in (IF mode = "tree" THEN Atoms(mode)
                        ELSE {BooleanGroup("Or", <<x>>) : x \in GroupAtoms})
    /\ identifiers \in IdentifiersOf(mode)
    /\ document = NoValue
    /\ wraps = 0
    /\ Idle

NextShake == Wrap \/ AppendChild \/ Coalesce \/ Shake \/ Reoptimise

SpecShake == InitShake /\ [][NextShake]_vars

(***************************************************************************)
(* coalesce alone, over identifier maps whose definitions may themselves   *)
(* name identifiers.                                                       *)
(***************************************************************************)
InitCoalesce ==
    /\ mode = "coalesce"
    /\ pc = "build"
    /\ expression \in Atoms(mode)
    /\ identifiers \in IdentifiersOf(mode)
    /\ document = NoValue
    /\ wraps = 0
    /\ Idle

NextCoalesce == Wrap \/ Coalesce

SpecCoalesce == InitCoalesce /\ [][NextCoalesce]_vars

(***************************************************************************)
(* The solver on a rule and on its optimised form.                         *)
(***************************************************************************)
Solve ==
    /\ pc = "shaken" /\ mode \in {"solve", "compare", "values"}
    /\ solved' = solve_expression(expression, identifiers, document)
    /\ answer' = solve(expression, identifiers, document)
    /\ pc' = "solved"
    /\ UNCHANGED <<frame, mode, expression, identifiers, document, wraps, coalesced, shaken,
                   reshaken, solvedOpt, answerOpt, kind, value, found>>

SolveOptimised ==
    /\ pc = "solved"
    /\ solvedOpt' = solve_expression(shaken, identifiers, document)
    /\ answerOpt' = solve(shaken, identifiers, document)
    /\ pc' = "done"
    /\ UNCHANGED <<frame, mode, expression, identifiers, document, wraps, coalesced, shaken,
                   reshaken, solved, answer, kind, value, found>>

InitSolve ==
    /\ mode = "solve"
    /\ pc = "build"
    /\ expression \in Atoms(mode)
    /\ identifiers \in IdentifiersOf(mode)
    /\ document \in Documents
    /\ wraps = 0
    /\ Idle

NextSolve == Wrap \/ Coalesce \/ Shake \/ Solve \/ SolveOptimised

SpecSolve == InitSolve /\ [][NextSolve]_vars

(***************************************************************************)
(* search on a fused automaton.                                            *)
(***************************************************************************)
Needles == {sa, sb, sab}

Contexts == {MatchType(mt, v) : mt \in Anchored, v \in Needles}

Chars == {"a", "b"}

Strings(n) == UNION {[1..k -> Chars] : k \in 0..n}

Automata ==
    {AhoCorasick([i \in 1..Len(cs) |-> cs[i].v], cs, FALSE) :
        cs \in UNION {[1..k -> Contexts] : k \in 0..MaxContexts}}

DoSearch ==
    /\ pc = "ready"
    /\ found' = search(kind, value)
    /\ pc' = "searched"
    /\ UNCHANGED <<frame, mode, expression, identifiers, document, wraps, coalesced, shaken,
                   reshaken, solved, answer, solvedOpt, answerOpt, kind, value>>

InitSearch ==
    /\ mode = "search"
    /\ pc = "ready"
    /\ kind \in Automata
    /\ value \in Strings(MaxValueLen)
    /\ expression = NoValue /\ identifiers = <<>> /\ document = NoValue
    /\ wraps = 0
    /\ coalesced = NoValue /\ shaken = NoValue /\ reshaken = NoValue
    /\ solved = "" /\ answer = "" /\ solvedOpt = "" /\ answerOpt = "" /\ found = ""
    /\ frame = NoValue

NextSearch == DoSearch

SpecSearch == InitSearch /\ [][NextSearch]_vars

(***************************************************************************)
(* The optimiser on a binary And/Or whose two sides are drawn from leaves, *)
(* negations, binary nodes and groups of either operator.                  *)
(***************************************************************************)
Sides ==
    {Null, P, Q, Negate(Null), Negate(Q),
     BooleanExpression(P, "And", Q),
     BooleanExpression(Null, "Or", Q),
     BooleanExpression(Negate(Null), "And", Negate(P)),
     BooleanGroup("And", <<P, Q>>),
     Plain, Fusable,
     Negate(Fusable),
     Negate(Match(All, BooleanGroup("Or", <<Null>>))),
     Match(All, BooleanGroup("Or", <<Null>>))}

InitBinary ==
    /\ mode = "binary"
    /\ pc = "build"
    /\ expression \in {BooleanExpression(l, op, r) :
                          l \in Sides, op \in {"And", "Or"}, r \in Sides}
    /\ identifiers \in IdentifiersOf(mode)
    /\ document = NoValue
    /\ wraps = 0
    /\ Idle

NextBinary == Coalesce \/ Shake

SpecBinary == InitBinary /\ [][NextBinary]_vars

(***************************************************************************)
(* The optimiser on one constructor applied to such a side: a negation, a  *)
(* double negation, a one-child group, a quantifier, a Nested node; and on *)
(* the sides themselves.                                                   *)
(***************************************************************************)
Quantifiers == {All, Of(0), Of(1)}

Unary ==
    Sides
    \cup {Negate(x) : x \in Sides}
    \cup {Negate(Negate(x)) : x \in Sides}
    \cup {BooleanGroup(op, <<x>>) : op \in {"And", "Or"}, x \in Sides}
    \cup {Match(m, x) : m \in Quantifiers, x \in Sides}
    \cup {Nested("f", x) : x \in Sides}

InitUnary ==
    /\ mode = "unary"
    /\ pc = "build"
    /\ expression \in Unary
    /\ identifiers \in IdentifiersOf(mode)
    /\ document = NoValue
    /\ wraps = 0
    /\ Idle

NextUnary == Coalesce \/ Shake

SpecUnary == InitUnary /\ [][NextUnary]_vars

(***************************************************************************)
(* The optimiser on an Or-group of up to MaxFused children that share      *)
(* fields: anchored searches, automata of either case mode, regexes and    *)
(* regex sets of either case mode, Nested nodes, and an Or-group that      *)
(* shake turns into an automaton before it is bucketed.                    *)
(***************************************************************************)
FusionAtoms ==
    {Search(Exact(sa), "f", FALSE),
     Search(StartsWith(sab), "f", FALSE),
     Search(AhoCorasick(<<sb, sab>>,
                        <<MatchType("Contains", sb), MatchType("EndsWith", sab)>>,
                        FALSE), "f", FALSE),
     Search(Exact(sb), "f", TRUE),
     Search(AhoCorasick(<<sa>>, <<MatchType("Exact", sa)>>, TRUE), "f", FALSE),
     Search(Regex(sa, FALSE), "f", FALSE),
     Search(Regex(sb, TRUE), "f", FALSE),
     Search(RegexSet(<<sb, sa>>, FALSE), "f", FALSE),
     Nested("g", Search(Exact(sa), "f", FALSE)),
     Nested("g", Search(Exact(sb), "f", FALSE)),
     Nested("f", Match(All, BooleanGroup("Or", <<Null>>))),
     Fusable}

InitFusion ==
    /\ mode = "fusion"
    /\ pc = "build"
    /\ expression \in {BooleanGroup("Or", xs) :
                          xs \in UNION {[1..k -> FusionAtoms] : k \in 1..MaxFused}}
    /\ identifiers \in IdentifiersOf(mode)
    /\ document = NoValue
    /\ wraps = 0
    /\ Idle

NextFusion == Coalesce \/ Shake

SpecFusion == InitFusion /\ [][NextFusion]_vars

\* The optimiser pipeline is the default specification.
Init == InitShake

Next == NextShake

Spec == SpecShake

(***************************************************************************)
(* Reading an expression tree.                                             *)
(***************************************************************************)
Children(e) ==
    CASE e.t = "BooleanGroup" -> Range(e.expressions)
      [] e.t = "BooleanExpression" -> {e.left, e.right}
      [] e.t \in {"Negate", "Match", "Nested"} -> {e.e}
      [] OTHER -> {}

\* every node of the tree, the root included
RECURSIVE Nodes(_)
Nodes(e) == {e} \cup UNION {Nodes(c) : c \in Children(e)}

\* every node that does not lie below a Match node
RECURSIVE NodesOutsideMatch(_)
NodesOutsideMatch(e) ==
    IF e.t = "Match" THEN {e}
    ELSE {e} \cup UNION {NodesOutsideMatch(c) : c \in Children(e)}

Tri == {"True", "False", "Missing"}

(***************************************************************************)
(* C1.  Optimisation preserves semantics: solve on e and D returns the     *)
(* same boolean as solve on shake(coalesce(e)) and D, also across the      *)
(* De Morgan rewrite when a side is Missing.  (Stated where the solver     *)
(* returns a boolean for the optimised expression.)                        *)
(***************************************************************************)
C1_SemanticsPreserved ==
    (pc = "done" /\ answer \in {"true", "false"} /\ answerOpt \in {"true", "false"})
    => answer = answerOpt

(***************************************************************************)
(* C2.  The optimiser is idempotent: optimising the optimised expression   *)
(* once more returns it structurally unchanged.                            *)
(***************************************************************************)
C2_Idempotent == pc = "reshaken" => reshaken = shaken

(***************************************************************************)
(* C3.  When every identifier named in e or in a definition of the map is  *)
(* a key of the map, coalesce(e, identifiers) contains no Identifier node  *)
(* at any depth.                                                           *)
(***************************************************************************)
Names(e) == {n.name : n \in {x \in Nodes(e) : x.t = "Identifier"}}

Closed(e, ids) ==
    /\ Names(e) \subseteq DOMAIN ids
    /\ \A k \in DOMAIN ids : Names(ids[k]) \subseteq DOMAIN ids

C3_NoIdentifierRemains ==
    (pc = "coalesced" /\ Closed(expression, identifiers)) => Names(coalesced) = {}

(***************************************************************************)
(* C4.  search on a fused automaton keeps per-needle anchoring: it is True *)
(* exactly when some context i matches the value under its own anchoring   *)
(* (Exact: equal; StartsWith: prefix; EndsWith: suffix; Contains:          *)
(* substring), and False otherwise.                                        *)
(***************************************************************************)
ContextMatches(ctx, v) ==
    CASE ctx.mt = "Exact" -> v = ctx.v
      [] ctx.mt = "StartsWith" -> starts_with(v, ctx.v)
      [] ctx.mt = "EndsWith" -> ends_with(v, ctx.v)
      [] ctx.mt = "Contains" -> contains(v, ctx.v)

C4_PerNeedleAnchoring ==
    pc = "searched" =>
        found = IF \E i \in 1..Len(kind.contexts) : ContextMatches(kind.contexts[i], value)
                THEN "True" ELSE "False"

\* Exact("a") fused with StartsWith("b") does not match "ab".
C4_Witness ==
    /\ pc = "searched"
    /\ kind.contexts = <<MatchType("Exact", sa), MatchType("StartsWith", sb)>>
    /\ value = sab
    /\ found = "False"

(***************************************************************************)
(* C5.  BooleanExpression(L, Or, R) follows the Or table: True if either   *)
(* side is True; otherwise Missing if at least one side is Missing;        *)
(* otherwise False.                                                        *)
(***************************************************************************)
OrTable(l, r) ==
    IF l = "True" \/ r = "True" THEN "True"
    ELSE IF l = "Missing" \/ r = "Missing" THEN "Missing"
    ELSE "False"

SideResult(side) == solve_expression(side, identifiers, document)

C5_OrTable ==
    (/\ pc \in {"solved", "done"}
     /\ expression.t = "BooleanExpression" /\ expression.op = "Or"
     /\ SideResult(expression.left) \in Tri /\ SideResult(expression.right) \in Tri)
    => solved = OrTable(SideResult(expression.left), SideResult(expression.right))

(***************************************************************************)
(* C6.  BooleanExpression(L, And, R) follows the And table: False if       *)
(* either side is False; otherwise Missing if either side is Missing;      *)
(* otherwise True.                                                         *)
(***************************************************************************)
AndTable(l, r) ==
    IF l = "False" \/ r = "False" THEN "False"
    ELSE IF l = "Missing" \/ r = "Missing" THEN "Missing"
    ELSE "True"

C6_AndTable ==
    (/\ pc \in {"solved", "done"}
     /\ expression.t = "BooleanExpression" /\ expression.op = "And"
     /\ SideResult(expression.left) \in Tri /\ SideResult(expression.right) \in Tri)
    => solved = AndTable(SideResult(expression.left), SideResult(expression.right))

(***************************************************************************)
(* C7.  Negate(E) is False when E is True, True when E is False and False  *)
(* when E is Missing; Negate never returns Missing.                        *)
(***************************************************************************)
C7_Negate ==
    (/\ pc \in {"solved", "done"}
     /\ expression.t = "Negate"
     /\ SideResult(expression.e) \in Tri)
    => /\ solved # "Missing"
       /\ SideResult(expression.e) = "True" => solved = "False"
       /\ SideResult(expression.e) = "False" => solved = "True"
       /\ SideResult(expression.e) = "Missing" => solved = "False"

C7_Witness ==
    /\ pc = "solved"
    /\ expression.t = "Negate"
    /\ SideResult(expression.e) = "Missing"
    /\ solved = "False"

(***************************************************************************)
(* C8.  The public solve returns true exactly when the tri-valued          *)
(* evaluation is True; False and Missing both yield false.                 *)
(***************************************************************************)
C8_SolveCollapses ==
    (pc \in {"solved", "done"} /\ solved \in Tri)
    => /\ answer \in {"true", "false"}
       /\ answer = "true" <=> solved = "True"

C8_Witness == pc = "solved" /\ solved = "Missing" /\ answer = "false"

(***************************************************************************)
(* Or-groups of the optimised expression.                                  *)
(***************************************************************************)
OrGroups(S) == {g \in S : g.t = "BooleanGroup" /\ g.op = "Or"}

NoMatch(e) == \A n \in Nodes(e) : n.t # "Match"

\* Position of a child in the canonical order of an Or-group.
Class(x) ==
    CASE x.t = "Nested" -> 10
      [] x.t # "Search" -> 9
      [] x.kind.k = "Any" -> 1
      [] x.kind.k = "Exact" -> 2
      [] x.kind.k = "StartsWith" -> 3
      [] x.kind.k = "EndsWith" -> 4
      [] x.kind.k = "Contains" -> 5
      [] x.kind.k = "AhoCorasick" -> 6
      [] x.kind.k = "Regex" -> 7
      [] x.kind.k = "RegexSet" -> 8

InOrder(x, y) ==
    \/ Class(x) < Class(y)
    \/ /\ Class(x) = Class(y)
       /\ CASE Class(x) \in 2..5 -> Len(x.kind.v) <= Len(y.kind.v)
            [] Class(x) = 6 -> Len(x.kind.contexts) >= Len(y.kind.contexts)
            [] Class(x) = 7 ->
                  \/ StrLess(x.kind.p, y.kind.p)
                  \/ x.kind.p = y.kind.p /\ BoolNum(x.kind.ins) <= BoolNum(y.kind.ins)
            [] OTHER -> TRUE

Canonical(xs) == \A i \in 1..Len(xs), j \in 1..Len(xs) : i < j => InOrder(xs[i], xs[j])

(***************************************************************************)
(* C9.  The children of every Or-group produced by the Or-group rule       *)
(* appear in the canonical order: Any, then singleton Exact, StartsWith,   *)
(* EndsWith, Contains (each by needle length ascending), then AhoCorasick  *)
(* (larger needle count first), then Regex (by pattern text and            *)
(* insensitive flag), then RegexSet, then every other child, merged Nested *)
(* children last.  (With no Match node in the input, the Or-groups of the  *)
(* result that do not lie below a Match node are those the rule produced.) *)
(***************************************************************************)
C9_CanonicalOrder ==
    (pc \in {"shaken", "reshaken"} /\ NoMatch(coalesced))
    => \A g \in OrGroups(NodesOutsideMatch(shaken)) : Canonical(g.expressions)

\* A group whose children were given in another order came out with a
\* shorter needle before a longer one of the same class, and with an
\* anchored search before an automaton.
C9_Witness ==
    /\ pc = "shaken" /\ NoMatch(coalesced)
    /\ shaken.t = "BooleanGroup" /\ shaken.op = "Or"
    /\ coalesced.t = "BooleanGroup"
    /\ shaken.expressions # coalesced.expressions
    /\ \E i \in 1..Len(shaken.expressions), j \in 1..Len(shaken.expressions) :
          /\ i < j
          /\ \/ /\ Class(shaken.expressions[i]) \in 2..5
                /\ Class(shaken.expressions[j]) = Class(shaken.expressions[i])
                /\ Len(shaken.expressions[i].kind.v) < Len(shaken.expressions[j].kind.v)
             \/ /\ Class(shaken.expressions[i]) \in 2..5
                /\ Class(shaken.expressions[j]) = 6

(***************************************************************************)
(* C10.  No Or-group of the result has two or more literal-needle children *)
(* (Exact, StartsWith, EndsWith, Contains, case-sensitive AhoCorasick)     *)
(* with the same (field, cast) key.                                        *)
(***************************************************************************)
IsLiteral(x) ==
    /\ x.t = "Search"
    /\ \/ x.kind.k \in Anchored
       \/ x.kind.k = "AhoCorasick" /\ ~x.kind.ins

SharedKey(xs) ==
    \E i \in 1..Len(xs), j \in 1..Len(xs) :
        /\ i < j
        /\ IsLiteral(xs[i]) /\ IsLiteral(xs[j])
        /\ xs[i].field = xs[j].field /\ xs[i].cast = xs[j].cast

C10_NoSharedKeyAnywhere ==
    pc \in {"shaken", "reshaken"}
    => \A g \in OrGroups(Nodes(shaken)) : ~SharedKey(g.expressions)

(***************************************************************************)
(* C11.  In the result of shake no BooleanExpression(_, op, _), op And or  *)
(* Or, has a direct child that is a BooleanExpression or a BooleanGroup of *)
(* the same op, and no BooleanGroup(op, xs) has a direct child that is a   *)
(* BooleanGroup of the same op.                                            *)
(***************************************************************************)
SameOpChild(n) ==
    \/ /\ n.t = "BooleanExpression" /\ n.op \in {"And", "Or"}
       /\ \E c \in {n.left, n.right} : IsGroup(c, n.op) \/ IsBinary(c, n.op)
    \/ /\ n.t = "BooleanGroup"
       /\ \E i \in 1..Len(n.expressions) : IsGroup(n.expressions[i], n.op)

C11_Flattened ==
    pc \in {"shaken", "reshaken"} => \A n \in Nodes(shaken) : ~SameOpChild(n)

(***************************************************************************)
(* The binary rule read on its input: the operands the two shaken sides    *)
(* contribute to a flattened group.                                        *)
(***************************************************************************)
SameOp(x, op) == IsGroup(x, op) \/ IsBinary(x, op)

OperandsOf(x, op) ==
    CASE IsGroup(x, op) -> x.expressions
      [] IsBinary(x, op) -> <<x.left, x.right>>
      [] OTHER -> <<x>>

IsAndOr(e) == e.t = "BooleanExpression" /\ e.op \in {"And", "Or"}

DeMorganApplies(L, op, R) == op = "And" /\ L.t = "Negate" /\ R.t = "Negate"

\* the group the claim names, left as it is
FlatGroup(L, op, R) == BooleanGroup(op, OperandsOf(L, op) \o OperandsOf(R, op))

(***************************************************************************)
(* C12.  Flattening rule, as claimed: shake(BooleanExpression(L, op, R)),  *)
(* op And or Or, is the group BooleanGroup(op, operands of shaken L        *)
(* followed by operands of shaken R) whenever a shaken side is a group or  *)
(* a binary node of the same op; otherwise, outside the De Morgan pattern, *)
(* it is the binary node over the shaken sides.                            *)
(***************************************************************************)
C12_FlattenInOrder ==
    (pc = "shaken" /\ IsAndOr(coalesced))
    => \E ord \in Orders :
          LET L == shake(coalesced.left, ord)
              R == shake(coalesced.right, ord)
              op == coalesced.op
          IN  CASE SameOp(L, op) \/ SameOp(R, op) -> shaken = FlatGroup(L, op, R)
                [] DeMorganApplies(L, op, R) -> TRUE
                [] OTHER -> shaken = BooleanExpression(L, op, R)

(***************************************************************************)
(* C13.  De Morgan rule: when shaken L is Negate(a) and shaken R is        *)
(* Negate(b), shake(BooleanExpression(L, And, R)) equals                   *)
(* shake(Negate(X)) for X = shake(BooleanExpression(a, Or, b)): it is      *)
(* Negate(BooleanExpression(a, Or, b)) when a Or b stays that binary node, *)
(* and Match(Of(0), X) when a Or b flattens into the Or-group X.           *)
(***************************************************************************)
C13_DeMorgan ==
    (pc = "shaken" /\ IsBinary(coalesced, "And"))
    => \E ord \in Orders :
          LET L == shake(coalesced.left, ord)
              R == shake(coalesced.right, ord)
              X == shake(BooleanExpression(L.e, "Or", R.e), ord)
          IN  DeMorganApplies(L, "And", R)
              => /\ shaken = shake(Negate(X), ord)
                 /\ X = BooleanExpression(L.e, "Or", R.e)
                       => shaken = Negate(BooleanExpression(L.e, "Or", R.e))
                 /\ IsGroup(X, "Or")
                       => shaken = Match(Of(0), X) /\ Len(X.expressions) >= 2

\* three negated conjuncts came out as "none of" an Or-group
C13_Witness ==
    /\ pc = "shaken" /\ IsBinary(coalesced, "And")
    /\ coalesced.left.t = "Negate"
    /\ IsBinary(coalesced.right, "And")
    /\ coalesced.right.left.t = "Negate" /\ coalesced.right.right.t = "Negate"
    /\ shaken.t = "Match" /\ shaken.m = Of(0)
    /\ IsGroup(shaken.e, "Or") /\ Len(shaken.e.expressions) = 3

(***************************************************************************)
(* C14.  Double negation is eliminated: shake(Negate(Negate(e))) equals    *)
(* shake(e).                                                               *)
(***************************************************************************)
C14_DoubleNegation ==
    (pc = "shaken" /\ coalesced.t = "Negate" /\ coalesced.e.t = "Negate")
    => \E ord \in Orders : shaken = shake(coalesced.e.e, ord)

\* a doubly negated Or-group came out as the fused search, without a Negate
C14_Witness ==
    /\ pc = "shaken"
    /\ coalesced = Negate(Negate(Fusable))
    /\ shaken.t = "Search" /\ shaken.kind.k = "AhoCorasick"

(***************************************************************************)
(* C15.  shake(Match(All, BooleanGroup(Or, xs))) is BooleanGroup(And, xs), *)
(* the same children in the same order; every other Match node is returned *)
(* unchanged, its child included.                                          *)
(***************************************************************************)
C15_MatchFrame ==
    (pc = "shaken" /\ coalesced.t = "Match")
    => IF coalesced.m = All /\ IsGroup(coalesced.e, "Or")
       THEN shaken = BooleanGroup("And", coalesced.e.expressions)
       ELSE shaken = coalesced

\* "all of" a fusable Or-group became the And-group of its children
C15_Witness ==
    /\ pc = "shaken"
    /\ coalesced = Match(All, Fusable)
    /\ shaken = BooleanGroup("And", Fusable.expressions)

(***************************************************************************)
(* C16.  A group that ends with exactly one child is unwrapped:            *)
(* shake(BooleanGroup(op, [x])) is shake(x), an Or-group whose children    *)
(* all fuse into a single child returns that child, and the group rule     *)
(* returns no BooleanGroup with exactly one child.                         *)
(***************************************************************************)
OneChild(e) == e.t = "BooleanGroup" /\ Len(e.expressions) = 1

C16_SingletonUnwrapped ==
    (pc = "shaken" /\ coalesced.t = "BooleanGroup")
    => /\ OneChild(coalesced)
          => \E ord \in Orders : shaken = shake(coalesced.expressions[1], ord)
       /\ ~OneChild(shaken)

(***************************************************************************)
(* Reading the Or-group rule on its input and output.  `Kids` are the      *)
(* children as the rule buckets them (each one shaken), `Out` the children *)
(* of the result (the result itself when the group was unwrapped).         *)
(***************************************************************************)
Kids(e, ord) == [i \in 1..Len(e.expressions) |-> shake(e.expressions[i], ord)]

Out(e) == IF IsGroup(e, "Or") THEN e.expressions ELSE <<e>>

Pick(xs, Keep(_), Part(_)) ==
    Concat([i \in 1..Len(xs) |-> IF Keep(xs[i]) THEN Part(xs[i]) ELSE <<>>])

Places(xs, Keep(_)) == {i \in 1..Len(xs) : Keep(xs[i])}

IsNeedleSearch(x) == x.t = "Search" /\ x.kind.k \in Anchored \cup {"AhoCorasick"}

IsPatternSearch(x) == x.t = "Search" /\ x.kind.k \in {"Regex", "RegexSet"}

KeyOf(x) ==
    [field |-> x.field, cast |-> x.cast,
     ins |-> x.kind.k \notin Anchored /\ x.kind.ins]

Tags(x) ==
    IF x.kind.k = "AhoCorasick" THEN x.kind.contexts
    ELSE <<[mt |-> x.kind.k, v |-> x.kind.v]>>

PatternsOf(x) == IF x.kind.k = "Regex" THEN <<x.kind.p>> ELSE x.kind.ps

FusionCase == pc = "shaken" /\ mode = "fusion" /\ IsGroup(coalesced, "Or")

(***************************************************************************)
(* C17.  Needle fusion in an Or-group: per (field, cast, insensitive) key  *)
(* the needles of the anchored children and the contexts of the            *)
(* AhoCorasick children are collected in input order; a case-sensitive key *)
(* with one needle comes out as its original anchored Search, every other  *)
(* key as exactly one AhoCorasick search whose contexts are the collected  *)
(* tags in that order and whose i-th pattern is the string of contexts[i]. *)
(***************************************************************************)
C17_NeedleFusion ==
    FusionCase
    => \E ord \in Orders :
          LET kids == Kids(coalesced, ord)
              out == Out(shaken)
          IN  \A i \in Places(kids, IsNeedleSearch) :
                 LET K == KeyOf(kids[i])
                     Same(x) == IsNeedleSearch(x) /\ KeyOf(x) = K
                     collected == Pick(kids, Same, Tags)
                     at == Places(out, Same)
                 IN  /\ Cardinality(at) = 1
                     /\ \A j \in at :
                           IF ~K.ins /\ Len(collected) = 1
                           THEN out[j].kind = [k |-> collected[1].mt, v |-> collected[1].v]
                           ELSE /\ out[j].kind.k = "AhoCorasick"
                                /\ out[j].kind.contexts = collected
                                /\ out[j].kind.patterns =
                                      [n \in 1..Len(collected) |-> collected[n].v]

\* an anchored search, a two-needle automaton and a fused Or-group on one
\* key came out as one automaton of five or more needles
C17_Witness ==
    /\ FusionCase
    /\ Len(coalesced.expressions) = 3
    /\ \E j \in 1..Len(Out(shaken)) :
          /\ IsNeedleSearch(Out(shaken)[j])
          /\ Out(shaken)[j].kind.k = "AhoCorasick"
          /\ Len(Out(shaken)[j].kind.contexts) >= 4
          /\ Out(shaken)[j].kind.contexts[1].mt # Out(shaken)[j].kind.contexts[2].mt

(***************************************************************************)
(* C18.  Pattern fusion in an Or-group: per (field, cast, insensitive) key *)
(* the patterns of the Regex and RegexSet children are collected in input  *)
(* order; a key with one pattern comes out as one Regex search, every      *)
(* other key as exactly one RegexSet search holding the collected          *)
(* patterns, and patterns of different insensitive flags are not merged.   *)
(***************************************************************************)
C18_PatternFusion ==
    FusionCase
    => \E ord \in Orders :
          LET kids == Kids(coalesced, ord)
              out == Out(shaken)
          IN  \A i \in Places(kids, IsPatternSearch) :
                 LET K == KeyOf(kids[i])
                     Same(x) == IsPatternSearch(x) /\ KeyOf(x) = K
                     collected == Pick(kids, Same, PatternsOf)
                     at == Places(out, Same)
                 IN  /\ Cardinality(at) = 1
                     /\ \A j \in at :
                           IF Len(collected) = 1
                           THEN out[j].kind = Regex(collected[1], K.ins)
                           ELSE out[j].kind = RegexSet(collected, K.ins)

\* a regex and a regex set of one flag were merged into a set of three
\* patterns while a regex of the other flag stayed alone
C18_Witness ==
    /\ FusionCase
    /\ \E j, k \in 1..Len(Out(shaken)) :
          /\ IsPatternSearch(Out(shaken)[j]) /\ IsPatternSearch(Out(shaken)[k])
          /\ Out(shaken)[j].kind.k = "RegexSet" /\ Len(Out(shaken)[j].kind.ps) = 3
          /\ Out(shaken)[k].kind.k = "Regex" /\ Out(shaken)[k].kind.ins

(***************************************************************************)
(* C19.  Nested fusion in an Or-group: the children Nested(f, e_i) of one  *)
(* field f are merged into exactly one child Nested(f, E), E being         *)
(* shake(e_1) for a single child and shake(BooleanGroup(Or, [e_1..e_n]))   *)
(* otherwise.                                                              *)
(***************************************************************************)
C19_NestedFusion ==
    FusionCase
    => \E ord \in Orders :
          LET kids == Kids(coalesced, ord)
              out == Out(shaken)
          IN  \A i \in Places(kids, LAMBDA x : x.t = "Nested") :
                 LET Same(x) == x.t = "Nested" /\ x.field = kids[i].field
                     inner == Pick(kids, Same, LAMBDA x : <<x.e>>)
                     at == Places(out, Same)
                 IN  /\ Cardinality(at) = 1
                     /\ \A j \in at :
                           out[j].e = IF Len(inner) = 1 THEN shake(inner[1], ord)
                                      ELSE shake(BooleanGroup("Or", inner), ord)

\* three Nested children of one field became one Nested over an automaton
C19_Witness ==
    /\ FusionCase
    /\ Len(coalesced.expressions) = 3
    /\ \A i \in 1..3 : coalesced.expressions[i].t = "Nested"
                          /\ coalesced.expressions[i].field = "g"
    /\ shaken.t = "Nested" /\ shaken.field = "g"
    /\ shaken.e.t = "Search" /\ shaken.e.kind.k = "AhoCorasick"
    /\ Len(shaken.e.kind.contexts) = 3

(***************************************************************************)
(* Rule loading.  The loader parses the rule's identifiers and condition   *)
(* and guarantees closure to the optimiser: a condition naming an          *)
(* identifier the rule does not define is rejected with Err, and only a    *)
(* loaded rule is handed to coalesce.                                      *)
(***************************************************************************)
\* A loader that hands every rule on.
load_rule_unchecked(condition, ids) == "Ok"

load_rule(condition, ids) ==
    IF Names(condition) \subseteq DOMAIN ids THEN "Ok" ELSE "Err"

Load ==
    /\ pc = "rule"
    /\ pc' = IF load_rule(expression, identifiers) = "Ok" THEN "build" ELSE "err"
    /\ UNCHANGED <<frame, mode, expression, identifiers, document, wraps, coalesced, shaken,
                   reshaken, solved, answer, solvedOpt, answerOpt, kind, value, found>>

LoadAtoms == {Identifier("A"), Identifier("B"), Identifier("C"), P, Null}

Conditions ==
    LoadAtoms
    \cup {Negate(x) : x \in LoadAtoms}
    \cup {BooleanExpression(x, op, y) : x \in LoadAtoms, op \in {"And", "Or"}, y \in LoadAtoms}
    \cup {Match(Of(1), BooleanGroup("Or", <<x, y>>)) : x \in LoadAtoms, y \in LoadAtoms}

\* the rule's own identifier blocks: none, one, two, and one whose
\* definition names an identifier no block defines
LoadIdentifiers ==
    {<<>>,
     [n \in {"A"} |-> P],
     [n \in {"A", "B"} |-> IF n = "A" THEN Fusable ELSE Q],
     [n \in {"A"} |-> Identifier("B")]}

InitLoad ==
    /\ mode = "load"
    /\ pc = "rule"
    /\ expression \in Conditions
    /\ identifiers \in LoadIdentifiers
    /\ document = NoValue
    /\ wraps = 0
    /\ Idle

NextLoad == Load \/ Coalesce \/ Shake

SpecLoad == InitLoad /\ [][NextLoad]_vars

C21_Deterministic ==
    pc = "shaken" => \A ord \in Orders : shake(coalesced, ord) = shaken

(***************************************************************************)
(* shake, one invocation at a time.  `frame` is the argument of the        *)
(* running invocation; the calls an invocation makes on the parts of its   *)
(* argument are part of its step.  The code is sequential: an invocation   *)
(* that is running takes its step.                                         *)
(***************************************************************************)
Enter ==
    /\ pc = "coalesced" /\ coalesced # PanicExpr
    /\ frame' = coalesced
    /\ pc' = "shaking"
    /\ UNCHANGED <<mode, expression, identifiers, document, wraps, coalesced, shaken,
                   reshaken, solved, answer, solvedOpt, answerOpt, kind, value, found>>

Reinvoke ==
    /\ pc = "shaking"
    /\ \E ord \in Orders :
          /\ reshake(frame, ord) # <<>>
          /\ frame' = reshake(frame, ord)[1]
    /\ UNCHANGED <<mode, pc, expression, identifiers, document, wraps, coalesced, shaken,
                   reshaken, solved, answer, solvedOpt, answerOpt, kind, value, found>>

Return ==
    /\ pc = "shaking"
    /\ \E ord \in Orders :
          /\ reshake(frame, ord) = <<>>
          /\ shaken' = shake(frame, ord)
    /\ pc' = "shaken"
    /\ UNCHANGED <<frame, mode, expression, identifiers, document, wraps, coalesced,
                   reshaken, solved, answer, solvedOpt, answerOpt, kind, value, found>>

StepAtoms ==
    {P, Q, Search(StartsWith(sab), "f", FALSE), Search(Regex(sa, FALSE), "f", FALSE),
     Nested("g", P), Fusable, Negate(Fusable), BooleanExpression(P, "Or", Q)}

StepInputs ==
    {BooleanExpression(l, op, r) : l \in Sides, op \in {"And", "Or"}, r \in Sides}
    \cup Unary
    \cup {BooleanGroup("Or", xs) : xs \in UNION {[1..k -> StepAtoms] : k \in 1..MaxChildren}}

InitSteps ==
    /\ mode = "steps"
    /\ pc = "build"
    /\ expression \in StepInputs
    /\ identifiers \in IdentifiersOf(mode)
    /\ document = NoValue
    /\ wraps = 0
    /\ Idle

NextSteps == Coalesce \/ Enter \/ Reinvoke \/ Return

SpecSteps == InitSteps /\ [][NextSteps]_vars

(***************************************************************************)
(* C22.  shake terminates: every re-invocation is on a strictly smaller    *)
(* argument, in the order that compares the number of nodes first and the  *)
(* rule that is left to apply second, so an invocation is followed by      *)
(* finitely many re-invocations; and a group is re-shaken only with        *)
(* strictly fewer children than it had (bucketing never adds a child).     *)
(***************************************************************************)
RECURSIVE Size(_), SizeAll(_)
SizeAll(xs) == IF xs = <<>> THEN 0 ELSE Size(Head(xs)) + SizeAll(Tail(xs))

Size(e) ==
    CASE e.t = "BooleanGroup" -> 1 + SizeAll(e.expressions)
      [] e.t = "BooleanExpression" -> 1 + Size(e.left) + Size(e.right)
      [] e.t \in {"Negate", "Nested", "Match"} -> 1 + Size(e.e)
      [] OTHER -> 1

\* what the rule at the root can still do without removing a node
Slack(e) ==
    CASE e.t = "BooleanGroup" -> Len(e.expressions)
      [] e.t = "Negate" -> 1
      [] OTHER -> 0

Smaller(a, b) ==
    \/ Size(a) < Size(b)
    \/ Size(a) = Size(b) /\ Slack(a) < Slack(b)

C22_Terminates ==
    [][(pc = "shaking" /\ pc' = "shaking")
       => /\ Smaller(frame', frame)
          /\ frame.t = "BooleanGroup"
             => /\ frame'.t = "BooleanGroup"
                /\ Len(frame'.expressions) < Len(frame.expressions)]_vars

\* a flattened binary node was re-shaken as a group and the group once
\* more after fusion took a child away
C22_Witness ==
    /\ pc = "shaking"
    /\ coalesced.t = "BooleanExpression"
    /\ frame.t = "BooleanGroup"
    /\ Len(frame.expressions) = 2
    /\ \E j \in 1..2 : IsKind(frame.expressions[j], {"AhoCorasick"})

(***************************************************************************)
(* C23.  shake(Negate(BooleanGroup(Or, xs))) is Match(Of(0),               *)
(* BooleanGroup(Or, xs)), and in the result of shake no Negate node has an *)
(* Or-group as its direct child.                                           *)
(***************************************************************************)
C23_NoNegatedOrGroup ==
    pc = "shaken"
    => /\ (coalesced.t = "Negate" /\ IsGroup(coalesced.e, "Or"))
          => shaken = Match(Of(0), coalesced.e)
       /\ \A n \in Nodes(shaken) : n.t = "Negate" => ~IsGroup(n.e, "Or")

(***************************************************************************)
(* C24.  The result of shake holds no Negate node whose direct child is a  *)
(* Negate node.                                                            *)
(***************************************************************************)
C24_NoDoubleNegation ==
    pc = "shaken" => \A n \in Nodes(shaken) : n.t = "Negate" => n.e.t # "Negate"

(***************************************************************************)
(* Comparisons, over documents whose fields f and g are absent or hold an  *)
(* integer, a numeral, another string, a boolean or null.                  *)
(***************************************************************************)
Scalars ==
    {None, VInt(1), VInt(2), VString(<<"2">>), VString(<<"-", "1">>), VString(sa),
     VBool(TRUE), VNull}

ScalarDocuments ==
    {[n \in {k \in {"f", "g"} : (IF k = "f" THEN x ELSE y) # None} |->
         IF n = "f" THEN x ELSE y] : x \in Scalars, y \in Scalars}

LeftSides == {Field("f"), Cast("f", "Int"), Cast("f", "Str"), Integer(1), Integer(2), Null}

RightSides == {Field("g"), Cast("g", "Int"), Cast("g", "Str"), Integer(1), Boolean(TRUE)}

InitCompare ==
    /\ mode = "compare"
    /\ pc = "build"
    /\ expression \in {BooleanExpression(l, op, r) :
                          l \in LeftSides, op \in Comparisons, r \in RightSides}
    /\ identifiers \in IdentifiersOf(mode)
    /\ document \in ScalarDocuments
    /\ wraps = 0
    /\ Idle

NextCompare == Coalesce \/ Shake \/ Solve \/ SolveOptimised

SpecCompare == InitCompare /\ [][NextCompare]_vars

(***************************************************************************)
(* C25.  Integer comparison: each side is resolved, left before right, to  *)
(* an integer from a Field (to_i64), a Cast(_, Int) (the string parsed) or *)
(* an Integer literal; the first side whose field is missing makes the     *)
(* result Missing, the first side whose value cannot be coerced makes it   *)
(* False, and otherwise the result is the comparison of the two integers.  *)
(***************************************************************************)
IsIntSide(x) == x.t \in {"Field", "Integer"} \/ (x.t = "Cast" /\ x.to = "Int")

\* the integers a string is a numeral of
NumeralOf(str) == {n \in -9..9 : str = IntToStr(n)}

\* how a side resolves: [st |-> "missing" | "uncoercible" | "int", v |-> integer]
IntOf(x, doc) ==
    IF x.t = "Integer" THEN [st |-> "int", v |-> x.i]
    ELSE IF x.field \notin DOMAIN doc THEN [st |-> "missing", v |-> 0]
    ELSE LET v == doc[x.field]
         IN  CASE v.vt = "Int" -> [st |-> "int", v |-> v.i]
               [] x.t = "Cast" /\ v.vt = "String" /\ NumeralOf(v.s) # {} ->
                     [st |-> "int", v |-> CHOOSE n \in NumeralOf(v.s) : TRUE]
               [] OTHER -> [st |-> "uncoercible", v |-> 0]

Compared(x, op, y) ==
    CASE op = "Equal" -> x = y
      [] op = "GreaterThan" -> x > y
      [] op = "GreaterThanOrEqual" -> x >= y
      [] op = "LessThan" -> x < y
      [] op = "LessThanOrEqual" -> x <= y

IsIntComparison(e) ==
    /\ e.t = "BooleanExpression" /\ e.op \in Comparisons
    /\ IsIntSide(e.left) /\ IsIntSide(e.right)

C25_IntegerComparison ==
    (pc \in {"solved", "done"} /\ mode = "compare" /\ IsIntComparison(expression))
    => LET x == IntOf(expression.left, document)
           y == IntOf(expression.right, document)
       IN  solved = CASE x.st = "missing" -> "Missing"
                      [] x.st = "uncoercible" -> "False"
                      [] y.st = "missing" -> "Missing"
                      [] y.st = "uncoercible" -> "False"
                      [] OTHER -> IF Compared(x.v, expression.op, y.v)
                                  THEN "True" ELSE "False"

\* the left value is present and is no integer, the right field is
\* missing: the left side decided
C25_Witness ==
    /\ pc = "solved" /\ mode = "compare" /\ IsIntComparison(expression)
    /\ IntOf(expression.left, document).st = "uncoercible"
    /\ IntOf(expression.right, document).st = "missing"
    /\ solved = "False"

(***************************************************************************)
(* C26.  Cast(l, Str) Equal Cast(r, Str): Missing if either field is       *)
(* missing from the document, whatever the other side holds; False if both *)
(* are present and either value has no string form; otherwise True exactly *)
(* when the two strings are equal.                                         *)
(***************************************************************************)
IsStrEqual(e) ==
    /\ e.t = "BooleanExpression" /\ e.op = "Equal"
    /\ e.left.t = "Cast" /\ e.left.to = "Str"
    /\ e.right.t = "Cast" /\ e.right.to = "Str"

C26_StringEquality ==
    (pc \in {"solved", "done"} /\ mode = "compare" /\ IsStrEqual(expression))
    => LET l == expression.left.field
           r == expression.right.field
       IN  solved =
              CASE l \notin DOMAIN document \/ r \notin DOMAIN document -> "Missing"
                [] ~to_string(document[l]).ok \/ ~to_string(document[r]).ok -> "False"
                [] OTHER -> IF to_string(document[l]).v = to_string(document[r]).v
                            THEN "True" ELSE "False"

(***************************************************************************)
(* Nested, Search and quantifier nodes, over documents whose field f is    *)
(* absent or holds a scalar, an object or an array.                        *)
(***************************************************************************)
Objects == {[f |-> VString(sa)], [f |-> VString(sb)], [g |-> VString(sa)]}

Shapes ==
    {None, VString(sa), VString(sab), VInt(1), VBool(TRUE), VNull,
     VArray(<<>>), VArray(<<VInt(1), VNull>>),
     VArray(<<VString(sb), VString(sab)>>), VArray(<<VInt(1), VString(sa)>>),
     VArray(<<VString(sb), VInt(1)>>)}
    \cup {VObject(o) : o \in Objects}
    \cup {VArray(<<VObject(o)>>) : o \in Objects}
    \cup {VArray(<<VObject(o), VInt(1), VObject(p)>>) : o \in Objects, p \in Objects}

ShapedDocuments ==
    {[n \in {k \in {"f", "g"} : (IF k = "f" THEN x ELSE y) # None} |->
         IF n = "f" THEN x ELSE y] : x \in Shapes, y \in {None, VString(sa)}}

Leaves ==
    {Search(Exact(sa), "f", FALSE), Search(StartsWith(sa), "f", FALSE),
     Search(Contains(sb), "f", FALSE), Search(Exact(sa), "g", FALSE)}

Shaped ==
    Leaves
    \cup {Nested("f", x) : x \in Leaves \cup {Negate(Search(Exact(sa), "f", FALSE))}}
    \cup {Negate(BooleanGroup("Or", <<x, y>>)) : x \in Leaves, y \in Leaves}
    \cup {Match(Of(k), BooleanGroup("Or", <<x, y>>)) : k \in 0..2, x \in Leaves, y \in Leaves}
    \cup {BooleanExpression(x, "Or", BooleanExpression(y, "Or", Search(Exact(sa), "g", FALSE))) :
             x \in Leaves, y \in Leaves}

InitValues ==
    /\ mode = "values"
    /\ pc = "build"
    /\ expression \in Shaped
    /\ identifiers \in IdentifiersOf(mode)
    /\ document \in ShapedDocuments
    /\ wraps = 0
    /\ Idle

NextValues == Coalesce \/ Shake \/ Solve \/ SolveOptimised

SpecValues == InitValues /\ [][NextValues]_vars

(***************************************************************************)
(* C27.  Nested(field, e): a missing field gives Missing; an Object value  *)
(* gives the result of e on that object; an Array value gives True if e is *)
(* True on at least one element that is an object and False otherwise,     *)
(* never Missing; any other value gives False.                             *)
(***************************************************************************)
C27_Nested ==
    (pc \in {"solved", "done"} /\ mode = "values" /\ expression.t = "Nested")
    => LET f == expression.field
           On(o) == solve_expression(expression.e, identifiers, o)
       IN  solved =
              CASE f \notin DOMAIN document -> "Missing"
                [] document[f].vt = "Object" -> On(document[f].o)
                [] document[f].vt = "Array" ->
                      IF \E i \in 1..Len(document[f].a) :
                            /\ document[f].a[i].vt = "Object"
                            /\ On(document[f].a[i].o) = "True"
                      THEN "True" ELSE "False"
                [] OTHER -> "False"

\* an array whose objects all lack the field e reads: e is Missing on
\* every element and the result is False
C27_Witness ==
    /\ pc = "solved" /\ mode = "values" /\ expression.t = "Nested"
    /\ "f" \in DOMAIN document /\ document["f"].vt = "Array"
    /\ Len(document["f"].a) = 3
    /\ \A i \in {1, 3} :
          solve_expression(expression.e, identifiers, document["f"].a[i].o) = "Missing"
    /\ solved = "False"

C29_MatchOf ==
    (pc \in {"solved", "done"} /\ mode = "values")
    => /\ (expression.t = "Match" /\ expression.m.m = "Of")
          => LET xs == expression.e.expressions
                 r == [i \in 1..Len(xs) |-> SideResult(xs[i])]
                 trues == Cardinality({i \in 1..Len(xs) : r[i] = "True"})
             IN  solved = IF trues >= expression.m.k THEN "True"
                          ELSE IF \E i \in 1..Len(xs) : r[i] = "Missing" THEN "Missing"
                          ELSE "False"
       /\ pc = "done" => solvedOpt \in Tri

(***************************************************************************)
(* Or-groups that mix searches that fuse with children that do not.        *)
(***************************************************************************)
MixedAtoms ==
    {P,
     Search(StartsWith(sab), "f", FALSE),
     Search(AhoCorasick(<<sb, sab>>, <<MatchType("Contains", sb), MatchType("EndsWith", sab)>>,
                        FALSE), "f", FALSE),
     Search(Regex(sa, FALSE), "f", FALSE),
     Search(RegexSet(<<sb, sa>>, FALSE), "f", FALSE),
     Search(Any, "f", FALSE),
     Nested("g", P),
     Null,
     Negate(P)}

InitMixed ==
    /\ mode = "mixed"
    /\ pc = "build"
    /\ expression \in {BooleanGroup("Or", xs) :
                          xs \in UNION {[1..k -> MixedAtoms] : k \in 1..MaxFused}}
    /\ identifiers \in IdentifiersOf(mode)
    /\ document = NoValue
    /\ wraps = 0
    /\ Idle

NextMixed == Coalesce \/ Shake

SpecMixed == InitMixed /\ [][NextMixed]_vars

(***************************************************************************)
(* C30.  Fusion neither loses nor invents predicates: among the direct     *)
(* children of the shaken Or-group, the multiset of literal needles        *)
(* (field, cast, insensitive, tag, needle) and the multiset of patterns    *)
(* (field, cast, insensitive, pattern) are those of the shaken input       *)
(* children, and every input child that is not a literal, regex or Nested  *)
(* child appears exactly once.                                             *)
(***************************************************************************)
Count(x, xs) == Cardinality({i \in 1..Len(xs) : xs[i] = x})

SameBag(xs, ys) == \A x \in Range(xs) \cup Range(ys) : Count(x, xs) = Count(x, ys)

NeedleItems(xs) ==
    Pick(xs, IsNeedleSearch,
         LAMBDA x : [i \in 1..Len(Tags(x)) |-> <<KeyOf(x), Tags(x)[i].mt, Tags(x)[i].v>>])

PatternItems(xs) ==
    Pick(xs, IsPatternSearch,
         LAMBDA x : [i \in 1..Len(PatternsOf(x)) |-> <<KeyOf(x), PatternsOf(x)[i]>>])

Others(xs) ==
    SelectSeq(xs, LAMBDA x : ~IsNeedleSearch(x) /\ ~IsPatternSearch(x) /\ x.t # "Nested")

====
